---------------------------- MODULE Spec2Model ----------------------------
(***************************************************************************)
(* A model of feature_tools.base_feature.BaseFeatures (ds-helpers).        *)
(*                                                                         *)
(* One view object `self` is constructed from a source table and a         *)
(* subclass (its three hooks transform / impute / create_target), and is   *)
(* then driven through its public operations: data, outcome_column,        *)
(* set_custom_transformer, raw_feature_columns, feature_columns, __str__.  *)
(* Execution is single threaded and synchronous, so every public           *)
(* operation is one atomic step that runs the whole handler, the hooks it  *)
(* calls included.                                                         *)
(*                                                                         *)
(* Three specifications share the operations of the view: Spec draws the   *)
(* constructor arguments widely; SpecAdd builds a second view `other` and  *)
(* adds the sum `self + other` and the accesses to the object it returns;  *)
(* SpecSave adds FeatureSerializer.save (feature_tools.serializer) and the *)
(* files it writes.  A fourth, SpecSplit, applies the pure function        *)
(* split_string (mlflow_utils.experiment_tools) to bounded inputs, and     *)
(* the step of log_experiment that calls it.                               *)
(*                                                                         *)
(* Python values are tagged records ([t |-> "None"], [t |-> "list", ...])  *)
(* so that None, a list, a string and a number stay distinguishable; each  *)
(* type keeps its payload in a field of its own (v, s, n, b).  A           *)
(* pandas DataFrame is its ordered column labels (duplicates possible      *)
(* after a rename) and its rows of values.  Column names are strings and   *)
(* the suffix is appended by string concatenation, as the code does.       *)
(***************************************************************************)
EXTENDS Naturals, Sequences, FiniteSets, TLC

VARIABLES
    self,   \* the BaseFeatures object (its fields), or None when __init__ raised
    last,   \* the last public operation: its name, arguments, exception, return value
            \* and the hooks it invoked, in call order
    runs,   \* hook invocations since construction or the last set_custom_transformer
    past,   \* one entry per set_custom_transformer call made so far: whether the
            \* view was materialized (_clean_data set) when the call was made
    other,  \* the right operand of `self + other`, or None when there is none
    combined, \* the object the last `self + other` returned, or None
    files   \* the artifacts FeatureSerializer.save has written, in the order written

vars == <<self, last, runs, past, other, combined, files>>

----------------------------------------------------------------------------
(* Bounds of the model. *)

\* rows of every source table
NRows == 2
\* how many times one stage hook may run between two invalidations
MaxRuns == 2
\* how many times set_custom_transformer may be called
MaxSets == 1

----------------------------------------------------------------------------
(* Python values. *)

PyNone == [t |-> "None"]
PyFalse == [t |-> "bool", b |-> FALSE]
PyList(s) == [t |-> "list", v |-> s]
PyStr(s) == [t |-> "str", s |-> s]
PyInt(n) == [t |-> "int", n |-> n]

IsNone(x) == x.t = "None"

\* Python truthiness of the values the constructor's optional parameters take
Truthy(x) ==
    CASE x.t = "None" -> FALSE
      [] x.t = "bool" -> x.b
      [] x.t = "list" -> x.v # <<>>
      [] x.t = "str"  -> x.s # ""
      [] OTHER        -> TRUE

\* `x or []`
OrEmptyList(x) == IF Truthy(x) THEN x.v ELSE <<>>

\* `x in seq` for a Python list or a pandas Index
Contains(seq, x) == \E i \in DOMAIN seq : seq[i] = x

\* set(seq)
ToSet(seq) == {seq[i] : i \in DOMAIN seq}

Min(S) == CHOOSE m \in S : \A n \in S : m <= n

----------------------------------------------------------------------------
(* Exceptions.  arg is the column a KeyError names, or which check raised. *)

NoExc == [type |-> "none", arg |-> ""]
KeyError(col) == [type |-> "KeyError", arg |-> col]
TypeError(what) == [type |-> "TypeError", arg |-> what]
RuntimeError == [type |-> "RuntimeError", arg |-> "hook"]
ValueError == [type |-> "ValueError", arg |-> "subset"]

Raised(r) == r.exc.type # "none"

\* the outcome of a method call: the object after it, the exception raised,
\* the value returned and the hooks invoked, in call order
Outcome(s, e, r, h) == [self |-> s, exc |-> e, ret |-> r, hooks |-> h]

----------------------------------------------------------------------------
(* pandas. *)

\* the value a source table holds in row i of the column labelled col: the
\* tests' fixtures count 1, 2, ... down every column and hold 0/1 in the outcome
SourceCell(col, i) == IF col = "y" THEN i % 2 ELSE i

\* a table given by its labels and its rows (each row: one value per column)
Table(cols, rows) ==
    [t |-> "DataFrame", columns |-> cols, nrows |-> Len(rows), rows |-> rows]

\* the rows 1..n of a source table with the columns cols
RECURSIVE source_row(_, _)
source_row(cols, i) ==
    IF cols = <<>> THEN <<>>
    ELSE <<SourceCell(Head(cols), i)>> \o source_row(Tail(cols), i)

RECURSIVE source_rows(_, _)
source_rows(cols, n) ==
    IF n = 0 THEN <<>>
    ELSE Append(source_rows(cols, n - 1), source_row(cols, n))

\* a source table with n rows
DataFrame(cols, n) == Table(cols, source_rows(cols, n))

\* df.copy(): an independent table with the same content
df_copy(df) == df

\* data[col] = value: a new column is appended, an existing one is overwritten in place
\* (the value is the scalar 2 of the tests' hooks, broadcast down the column)
RECURSIVE row_assign(_, _, _)
row_assign(columns, row, col) ==
    IF columns = <<>> THEN <<>>
    ELSE <<IF Head(columns) = col THEN 2 ELSE Head(row)>>
            \o row_assign(Tail(columns), Tail(row), col)

RECURSIVE rows_assign(_, _, _)
rows_assign(columns, rows, col) ==
    IF rows = <<>> THEN <<>>
    ELSE <<IF Contains(columns, col) THEN row_assign(columns, Head(rows), col)
           ELSE Append(Head(rows), 2)>>
            \o rows_assign(columns, Tail(rows), col)

df_setitem(df, col) ==
    IF Contains(df.columns, col)
    THEN [df EXCEPT !.rows = rows_assign(df.columns, df.rows, col)]
    ELSE [df EXCEPT !.columns = Append(@, col),
                    !.rows = rows_assign(df.columns, df.rows, col)]

RECURSIVE df_setitems(_, _)
df_setitems(df, cols) ==
    IF cols = <<>> THEN df
    ELSE df_setitems(df_setitem(df, Head(cols)), Tail(cols))

\* {k: v for k, v in zip(keys, values)}: a later pair overwrites an earlier one
dict_zip(keys, values) ==
    LET n == IF Len(keys) <= Len(values) THEN Len(keys) ELSE Len(values)
        idx(k) == {i \in 1..n : keys[i] = k}
    IN  [k \in {keys[i] : i \in 1..n} |->
            values[CHOOSE i \in idx(k) : \A j \in idx(k) : j <= i]]

\* df.rename(columns=mapper): every label that is a key is replaced, at once
df_rename(df, mapper) ==
    [df EXCEPT !.columns =
        [i \in DOMAIN df.columns |->
            IF df.columns[i] \in DOMAIN mapper THEN mapper[df.columns[i]]
            ELSE df.columns[i]]]

\* the labels df.loc[:, labels] selects: for each label in order, every column
\* carrying it (several, when the frame's labels are not unique)
RECURSIVE loc_labels(_, _)
loc_labels(columns, labels) ==
    IF labels = <<>> THEN <<>>
    ELSE SelectSeq(columns, LAMBDA c : c = Head(labels))
            \o loc_labels(columns, Tail(labels))

\* the values of a row in the columns df.loc[:, labels] selects, in that order
RECURSIVE loc_row(_, _, _)
loc_row(columns, row, labels) ==
    IF labels = <<>> THEN <<>>
    ELSE LET at == {i \in DOMAIN columns : columns[i] = Head(labels)}
             RECURSIVE pick(_)
             pick(i) == IF i > Len(columns) THEN <<>>
                        ELSE (IF i \in at THEN <<row[i]>> ELSE <<>>) \o pick(i + 1)
         IN  pick(1) \o loc_row(columns, row, Tail(labels))

RECURSIVE loc_rows(_, _, _)
loc_rows(columns, rows, labels) ==
    IF rows = <<>> THEN <<>>
    ELSE <<loc_row(columns, Head(rows), labels)>> \o loc_rows(columns, Tail(rows), labels)

\* df.loc[:, labels]: KeyError when a label is not a column of df
df_loc(df, labels) ==
    LET missing == {i \in DOMAIN labels : ~Contains(df.columns, labels[i])}
    IN  IF missing # {}
        THEN [exc |-> KeyError(labels[Min(missing)]), ret |-> PyNone]
        ELSE [exc |-> NoExc,
              ret |-> Table(loc_labels(df.columns, labels),
                            loc_rows(df.columns, df.rows, labels))]

\* the position of the column labelled col (the first, if there are several)
position(columns, col) == Min({i \in DOMAIN columns : columns[i] = col})

\* the rows of an inner merge: for every left row in order, every right row
\* with equal values in the key columns, in order; a merged row is the left
\* row followed by the right row's values outside the key
RECURSIVE merge_rows(_, _, _, _, _)
merge_rows(lrows, rrows, lkey, rkey, rrest) ==
    IF lrows = <<>> THEN <<>>
    ELSE LET l == Head(lrows)
             matching == SelectSeq(rrows,
                            LAMBDA r : \A k \in DOMAIN lkey : l[lkey[k]] = r[rkey[k]])
         IN  [j \in DOMAIN matching |->
                 l \o [q \in DOMAIN rrest |-> matching[j][rrest[q]]]]
             \o merge_rows(Tail(lrows), rrows, lkey, rkey, rrest)

\* left.merge(right, on=on, how="inner"), for a non-empty key list: KeyError
\* when a key is not a column of both tables; the columns are the left ones,
\* then the right ones outside the key; a label outside the key that both
\* tables carry gets the suffix _x on the left and _y on the right
df_merge(left, right, on) ==
    LET missing == {i \in DOMAIN on : ~Contains(right.columns, on[i])
                                        \/ ~Contains(left.columns, on[i])}
        rrest == SelectSeq([i \in DOMAIN right.columns |-> i],
                           LAMBDA i : right.columns[i] \notin ToSet(on))
        shared == (ToSet(left.columns) \cap ToSet(right.columns)) \ ToSet(on)
        lcols == [i \in DOMAIN left.columns |->
                    IF left.columns[i] \in shared THEN left.columns[i] \o "_x"
                    ELSE left.columns[i]]
        rcols == [q \in DOMAIN rrest |->
                    IF right.columns[rrest[q]] \in shared
                    THEN right.columns[rrest[q]] \o "_y"
                    ELSE right.columns[rrest[q]]]
    IN  IF missing # {}
        THEN [exc |-> KeyError(on[Min(missing)]), ret |-> PyNone]
        ELSE [exc |-> NoExc,
              ret |-> Table(lcols \o rcols,
                            merge_rows(left.rows, right.rows,
                                       [k \in DOMAIN on |-> position(left.columns, on[k])],
                                       [k \in DOMAIN on |-> position(right.columns, on[k])],
                                       rrest))]


----------------------------------------------------------------------------
(* The subclass of BaseFeatures a view is an instance of: what its three   *)
(* hooks do.  A transform or impute hook opens data_accessor, assigns the  *)
(* columns `adds` on the working copy, raises inside the block if          *)
(* `raises`, and afterwards appends `declares` to _additional_features; a  *)
(* create_target hook returns the value `create_target`.                   *)

Hook(adds, declares, raises) ==
    [adds |-> adds, declares |-> declares, raises |-> raises]

\* BaseFeatures.transform and BaseFeatures.impute: `pass`
hook_pass == Hook(<<>>, <<>>, FALSE)

\* a transform that adds a column and registers it (the tests' Features.transform)
hook_new_feat == Hook(<<"n">>, <<"n">>, FALSE)

\* a hook that raises after it has modified the working copy
hook_raises == Hook(<<"n">>, <<>>, TRUE)

\* a subclass: its transform hook, its impute hook, and what its create_target
\* returns: None (the base class), the name of a column, a name that is no
\* column, a number
Class(t, i, c) == [transform |-> t, impute |-> i, create_target |-> c]

\* the subclasses views are built from: BaseFeatures itself, the subclasses of
\* the tests, and subclasses whose transform or impute raises
Classes ==
    { Class(hook_pass, hook_pass, PyNone),
      Class(hook_pass, hook_pass, PyStr("y")),
      Class(hook_pass, hook_pass, PyInt(42)),
      Class(hook_pass, hook_pass, PyStr("x")),
      Class(hook_new_feat, hook_pass, PyStr("y")),
      Class(hook_raises, hook_pass, PyStr("y")),
      Class(hook_pass, hook_raises, PyStr("y")) }

\* an injected transformer fn(data): assigns the columns `adds` on data, then
\* raises or returns `returns`
Function(adds, returns, raises) ==
    [t |-> "function", adds |-> adds, returns |-> returns, raises |-> raises]

Transformers ==
    { Function(<<"n">>, PyList(<<"n">>), FALSE),
      Function(<<"n">>, PyNone, FALSE),
      Function(<<>>, PyList(<<"n">>), FALSE),
      Function(<<"n">>, PyStr("n"), FALSE),
      Function(<<"n">>, PyNone, TRUE) }

----------------------------------------------------------------------------
(* class BaseFeatures *)

\* _check_columns: KeyError for the first name of col_list that is no column of df
_check_columns(df, col_list) ==
    LET missing == {i \in DOMAIN col_list : ~Contains(df.columns, col_list[i])}
    IN  IF missing = {} THEN NoExc ELSE KeyError(col_list[Min(missing)])

\* pd.read_csv(path, parse_dates=...): the table in the file.  parse_dates only
\* changes the type of the values of the columns it names, which a table of
\* labels and rows does not hold.
read_csv(path) == DataFrame(<<"m", "f", "g", "y">>, NRows)

\* _load_validate with the two checks in the other order
_load_validate_meta_first(s, data_obj) ==
    IF data_obj.t \notin {"str", "DataFrame"}
    THEN [exc |-> TypeError("data"), ret |-> PyNone]
    ELSE LET data == IF data_obj.t = "str" THEN read_csv(data_obj.s)
                     ELSE df_copy(data_obj)
             e1 == _check_columns(data, s.meta_columns)
             e2 == _check_columns(data, s._base_feature_columns)
         IN  IF e1.type # "none" THEN [exc |-> e1, ret |-> PyNone]
             ELSE IF e2.type # "none" THEN [exc |-> e2, ret |-> PyNone]
             ELSE [exc |-> NoExc, ret |-> data]

\* _load_validate: load the table (a copy), then check the base feature columns,
\* then the meta columns.  s is the object under construction.
_load_validate(s, data_obj) ==
    IF data_obj.t \notin {"str", "DataFrame"}
    THEN [exc |-> TypeError("data"), ret |-> PyNone]
    ELSE LET data == IF data_obj.t = "str" THEN read_csv(data_obj.s)
                     ELSE df_copy(data_obj)
             e1 == _check_columns(data, s._base_feature_columns)
             e2 == _check_columns(data, s.meta_columns)
         IN  IF e1.type # "none" THEN [exc |-> e1, ret |-> PyNone]
             ELSE IF e2.type # "none" THEN [exc |-> e2, ret |-> PyNone]
             ELSE [exc |-> NoExc, ret |-> data]

\* __init__ of an instance of the subclass cls
__init__(cls, data, feature_columns, feature_suffix, meta_columns, exclude_columns) ==
    LET s == [t |-> "BaseFeatures",
              cls |-> cls,
              _base_feature_columns |-> feature_columns,
              feature_suffix |-> feature_suffix,
              meta_columns |-> OrEmptyList(meta_columns),
              exclude_columns |-> OrEmptyList(exclude_columns),
              _outcome_column |-> PyNone,
              custom_transformer |-> PyNone,
              _additional_features |-> <<>>,
              _all_data |-> PyNone,
              _clean_data |-> PyNone]
        loaded == _load_validate(s, data)
    IN  IF loaded.exc.type # "none"
        THEN Outcome(PyNone, loaded.exc, PyNone, <<>>)
        ELSE Outcome([s EXCEPT !._all_data = loaded.ret], NoExc, PyNone, <<>>)

\* raw_feature_columns with the exclusions applied to the base features only
raw_feature_columns_base_only(s) ==
    IF s.exclude_columns # <<>>
    THEN SelectSeq(s._base_feature_columns,
                   LAMBDA feature : ~Contains(s.exclude_columns, feature))
            \o s._additional_features
    ELSE s._base_feature_columns \o s._additional_features

\* raw_feature_columns
raw_feature_columns(s) ==
    LET all_features == s._base_feature_columns \o s._additional_features
    IN  IF s.exclude_columns # <<>>
        THEN SelectSeq(all_features, LAMBDA feature : ~Contains(s.exclude_columns, feature))
        ELSE all_features

\* feature_columns with the suffix put in front of the name
feature_columns_prefixed(s) ==
    LET all_features == raw_feature_columns(s)
    IN  IF s.feature_suffix # ""
        THEN [i \in DOMAIN all_features |-> s.feature_suffix \o all_features[i]]
        ELSE all_features

\* feature_columns
feature_columns(s) ==
    LET all_features == raw_feature_columns(s)
    IN  IF s.feature_suffix # ""
        THEN [i \in DOMAIN all_features |-> all_features[i] \o s.feature_suffix]
        ELSE all_features

\* data_accessor, entering the with block: the working copy handed to the body
data_accessor_enter(s) == df_copy(s._all_data)

\* data_accessor, leaving the with block (`finally`): the working copy becomes
\* _all_data, whether the body raised (exc) or not
data_accessor_exit(s, data, exc) == [s EXCEPT !._all_data = data]

\* a transform or impute hook of the subclass, named `name`, doing what h says
run_hook(s, h, name) ==
    LET data == df_setitems(data_accessor_enter(s), h.adds)
        exc == IF h.raises THEN RuntimeError ELSE NoExc
        s1 == data_accessor_exit(s, data, exc)
    IN  IF h.raises THEN Outcome(s1, exc, PyNone, <<name>>)
        ELSE Outcome([s1 EXCEPT !._additional_features = @ \o h.declares],
                     NoExc, PyNone, <<name>>)

transform(s) == run_hook(s, s.cls.transform, "transform")

impute(s) == run_hook(s, s.cls.impute, "impute")

create_target(s) == s.cls.create_target


\* _create_outcome_column that caches the target only once it is validated
_create_outcome_column_caches_late(s) ==
    IF IsNone(s._outcome_column)
    THEN LET col == create_target(s)
             called == <<"create_target">>
         IN  IF IsNone(col)
             THEN Outcome([s EXCEPT !._outcome_column = PyList(<<>>)],
                          NoExc, PyList(<<>>), called)
             ELSE IF col.t # "str"
             THEN Outcome(s, TypeError("outcome"), PyNone, called)
             ELSE IF ~Contains(s._all_data.columns, col.s)
             THEN Outcome(s, KeyError(col.s), PyNone, called)
             ELSE LET s1 == [s EXCEPT !._outcome_column = PyList(<<col.s>>)]
                  IN  Outcome(s1, NoExc, s1._outcome_column, called)
    ELSE Outcome(s, NoExc, s._outcome_column, <<>>)

\* _create_outcome_column without the check that the column exists
_create_outcome_column_unchecked(s) ==
    IF IsNone(s._outcome_column)
    THEN LET s0 == [s EXCEPT !._outcome_column = PyList(<<>>)]
             col == create_target(s0)
             called == <<"create_target">>
         IN  IF IsNone(col) THEN Outcome(s0, NoExc, s0._outcome_column, called)
             ELSE IF col.t # "str"
             THEN Outcome(s0, TypeError("outcome"), PyNone, called)
             ELSE LET s1 == [s0 EXCEPT !._outcome_column = PyList(<<col.s>>)]
                  IN  Outcome(s1, NoExc, s1._outcome_column, called)
    ELSE Outcome(s, NoExc, s._outcome_column, <<>>)

\* _create_outcome_column: resolve the target on the first call, return the
\* cached list on every later one
_create_outcome_column(s) ==
    IF IsNone(s._outcome_column)
    THEN LET s0 == [s EXCEPT !._outcome_column = PyList(<<>>)]
             col == create_target(s0)
             called == <<"create_target">>
         IN  IF IsNone(col) THEN Outcome(s0, NoExc, s0._outcome_column, called)
             ELSE IF col.t # "str"
             THEN Outcome(s0, TypeError("outcome"), PyNone, called)
             ELSE IF ~Contains(s0._all_data.columns, col.s)
             THEN Outcome(s0, KeyError(col.s), PyNone, called)
             ELSE LET s1 == [s0 EXCEPT !._outcome_column = PyList(<<col.s>>)]
                  IN  Outcome(s1, NoExc, s1._outcome_column, called)
    ELSE Outcome(s, NoExc, s._outcome_column, <<>>)

\* set_custom_transformer without the invalidation
set_custom_transformer_keeps_cache(s, fn) ==
    Outcome([s EXCEPT !.custom_transformer = fn], NoExc, PyNone, <<>>)

\* set_custom_transformer
set_custom_transformer(s, fn) ==
    Outcome([s EXCEPT !.custom_transformer = fn, !._clean_data = PyNone],
            NoExc, PyNone, <<>>)

\* _invoke_custom_transformer: the whole body runs inside data_accessor
_invoke_custom_transformer(s) ==
    LET fn == s.custom_transformer
        called == <<"custom_transformer">>
        data == df_setitems(data_accessor_enter(s), fn.adds)
        feature_names == fn.returns
        exc == IF fn.raises THEN RuntimeError
               ELSE IF IsNone(feature_names) THEN NoExc
               ELSE IF feature_names.t # "list" THEN TypeError("transformer")
               ELSE _check_columns(data, feature_names.v)
        s1 == data_accessor_exit(s, data, exc)
    IN  IF exc.type # "none" THEN Outcome(s1, exc, PyNone, called)
        ELSE IF IsNone(feature_names) THEN Outcome(s1, NoExc, PyNone, called)
        ELSE Outcome([s1 EXCEPT !._additional_features = @ \o feature_names.v],
                     NoExc, PyNone, called)

\* outcome_column
outcome_column(s) == _create_outcome_column(s)

\* the stages of data, in order; each runs on the object the one before left
\* and an exception ends the call
data_transform(s) ==
    IF IsNone(s.custom_transformer) THEN transform(s)
    ELSE _invoke_custom_transformer(s)

\* the working table of data after the rename stage
RenamedTable(s) ==
    df_rename(df_copy(s._all_data),
              dict_zip(raw_feature_columns(s), feature_columns(s)))

\* data_picked that keeps the renamed names as the base feature columns
data_picked_renames_base(s, picked) ==
    IF picked.exc.type # "none" THEN Outcome(s, picked.exc, PyNone, <<>>)
    ELSE Outcome([s EXCEPT !._clean_data = picked.ret,
                           !._base_feature_columns = feature_columns(s)],
                 NoExc, picked.ret, <<>>)

\* the end of data: the projection `picked` is memoized and returned
data_picked(s, picked) ==
    IF picked.exc.type # "none" THEN Outcome(s, picked.exc, PyNone, <<>>)
    ELSE Outcome([s EXCEPT !._clean_data = picked.ret], NoExc, picked.ret, <<>>)

\* the rename and the projection of data: the last stage
data_project(s) ==
    data_picked(s, df_loc(RenamedTable(s),
                          s.meta_columns \o feature_columns(s)
                              \o outcome_column(s).ret.v))

\* data after the projection r4; hooks are the hooks the call invoked
data_projected(hooks, r4) == Outcome(r4.self, r4.exc, r4.ret, hooks)

\* data after the target resolution r3; hooks are the hooks invoked before it
data_after_target(hooks, r3) ==
    IF Raised(r3) THEN Outcome(r3.self, r3.exc, PyNone, hooks \o r3.hooks)
    ELSE data_projected(hooks \o r3.hooks, data_project(r3.self))

\* data after the impute stage r2
data_after_impute(hooks, r2) ==
    IF Raised(r2) THEN Outcome(r2.self, r2.exc, PyNone, hooks \o r2.hooks)
    ELSE data_after_target(hooks \o r2.hooks, _create_outcome_column(r2.self))

\* data after the transform stage r1
data_after_transform(r1) ==
    IF Raised(r1) THEN r1
    ELSE data_after_impute(r1.hooks, impute(r1.self))

\* data, when nothing is memoized: transform, impute, target, rename, project
data_compute(s) == data_after_transform(data_transform(s))

\* data without the memo
data_never_memoized(s) == data_compute(s)

\* data
data(s) ==
    IF IsNone(s._clean_data) THEN data_compute(s)
    ELSE Outcome(s, NoExc, s._clean_data, <<>>)

\* __str__ after its two reads; the string is summarised by the numbers it prints
str_format(s, r1, r2) ==
    IF Raised(r2) THEN Outcome(r2.self, r2.exc, PyNone, r1.hooks \o r2.hooks)
    ELSE Outcome(r2.self, NoExc,
                 [t |-> "str",
                  size |-> r1.ret.nrows,
                  base |-> Len(s._base_feature_columns),
                  transformed |-> Len(r2.self._additional_features),
                  meta |-> Len(s.meta_columns),
                  outcome |-> Len(r2.ret.v)],
                 r1.hooks \o r2.hooks)

\* __str__ after the read of data
str_after_data(s, r1) ==
    IF Raised(r1) THEN r1
    ELSE str_format(s, r1, outcome_column(r1.self))

\* __str__: reads data, then outcome_column
__str__(s) == str_after_data(s, data(s))

\* the outcome of self + other: both operands after it, the exception raised,
\* the object returned, the hooks of self and of other it invoked, and whether
\* the warning about differently sized datasets was printed
AddOutcome(s, o, e, r, h, oh, w) ==
    [self |-> s, other |-> o, exc |-> e, ret |-> r, hooks |-> h,
     other_hooks |-> oh, warned |-> w]

\* __add__ after the constructor: the target of self is patched in
add_constructed(s1, o1, h, oh, warned, obj) ==
    IF Raised(obj) THEN AddOutcome(s1, o1, obj.exc, PyNone, h, oh, warned)
    ELSE AddOutcome(s1, o1, NoExc,
                    [obj.self EXCEPT !._outcome_column = s1._outcome_column],
                    h, oh, warned)

\* __add__ after the merge: the result is constructed from the joined table
add_merged(s1, o1, h, oh, warned, merged) ==
    IF merged.exc.type # "none"
    THEN AddOutcome(s1, o1, merged.exc, PyNone, h, oh, warned)
    ELSE add_constructed(s1, o1, h, oh, warned,
                         __init__(Class(hook_pass, hook_pass, PyNone), merged.ret,
                                  feature_columns(s1) \o feature_columns(o1), "",
                                  PyList(s1.meta_columns), PyFalse))

\* add_checked joining on the meta columns only
add_checked_on_meta_columns(s1, o1, h, oh, warned) ==
    IF ToSet(s1.meta_columns) # ToSet(o1.meta_columns)
    THEN AddOutcome(s1, o1, TypeError("meta"), PyNone, h, oh, warned)
    ELSE IF ToSet(feature_columns(s1)) \ ToSet(feature_columns(o1))
                # ToSet(feature_columns(s1))
    THEN AddOutcome(s1, o1, KeyError("Duplicate feature columns"), PyNone, h, oh, warned)
    ELSE add_merged(s1, o1, h, oh, warned,
                    df_merge(data(s1).ret, data(o1).ret, s1.meta_columns))

\* add_checked with the check of the feature columns before the check of the
\* meta columns
add_checked_features_first(s1, o1, h, oh, warned) ==
    IF ToSet(feature_columns(s1)) \ ToSet(feature_columns(o1))
                # ToSet(feature_columns(s1))
    THEN AddOutcome(s1, o1, KeyError("Duplicate feature columns"), PyNone, h, oh, warned)
    ELSE IF ToSet(s1.meta_columns) # ToSet(o1.meta_columns)
    THEN AddOutcome(s1, o1, TypeError("meta"), PyNone, h, oh, warned)
    ELSE add_merged(s1, o1, h, oh, warned,
                    df_merge(data(s1).ret, data(o1).ret,
                             s1.meta_columns \o outcome_column(s1).ret.v))

\* __add__ once both views are materialized: the check of the meta columns,
\* the check of the feature columns, the merge
add_checked(s1, o1, h, oh, warned) ==
    IF ToSet(s1.meta_columns) # ToSet(o1.meta_columns)
    THEN AddOutcome(s1, o1, TypeError("meta"), PyNone, h, oh, warned)
    ELSE IF ToSet(feature_columns(s1)) \ ToSet(feature_columns(o1))
                # ToSet(feature_columns(s1))
    THEN AddOutcome(s1, o1, KeyError("Duplicate feature columns"), PyNone, h, oh, warned)
    ELSE add_merged(s1, o1, h, oh, warned,
                    df_merge(data(s1).ret, data(o1).ret,
                             s1.meta_columns \o outcome_column(s1).ret.v))

\* __add__ after other.data (r2): the sizes are compared
add_right(r1, r2) ==
    IF Raised(r2)
    THEN AddOutcome(r1.self, r2.self, r2.exc, PyNone, r1.hooks, r2.hooks, FALSE)
    ELSE add_checked(r1.self, r2.self, r1.hooks, r2.hooks,
                     r1.ret.nrows # r2.ret.nrows)

\* __add__ after self.data (r1)
add_left(o, r1) ==
    IF Raised(r1) THEN AddOutcome(r1.self, o, r1.exc, PyNone, r1.hooks, <<>>, FALSE)
    ELSE add_right(r1, data(o))

\* __add__: o is the right operand
__add__(s, o) ==
    IF o.t # "BaseFeatures"
    THEN AddOutcome(s, o, TypeError("other"), PyNone, <<>>, <<>>, FALSE)
    ELSE add_left(o, data(s))

----------------------------------------------------------------------------
(* class FeatureSerializer.  A dict is a function from its keys; a file is  *)
(* its name and what was written to it.                                     *)

\* FeatureSerializer.__init__
FeatureSerializer(features, process_uuid, additional_meta) ==
    IF features.t # "BaseFeatures"
    THEN [exc |-> TypeError("features"), ret |-> PyNone]
    ELSE [exc |-> NoExc,
          ret |-> [features |-> features, additional_meta |-> additional_meta,
                   process_uuid |-> process_uuid]]

\* {**a, **b}
dict_update(a, b) ==
    [k \in DOMAIN a \cup DOMAIN b |-> IF k \in DOMAIN b THEN b[k] ELSE a[k]]

\* what _get_meta returns for the feature list feature_cols, given the read
\* of outcome_column
meta_described(ser, feature_cols, target) ==
    IF Raised(target) THEN target
    ELSE Outcome(target.self, NoExc,
                 IF IsNone(ser.additional_meta)
                 THEN [features |-> feature_cols,
                       meta_columns |-> ser.features.meta_columns,
                       target |-> target.ret.v,
                       process_uuid |-> ser.process_uuid,
                       created_at |-> "now"]
                 ELSE dict_update([features |-> feature_cols,
                                   meta_columns |-> ser.features.meta_columns,
                                   target |-> target.ret.v,
                                   process_uuid |-> ser.process_uuid,
                                   created_at |-> "now"],
                                  ser.additional_meta.d),
                 target.hooks)

\* _get_meta that takes the subset as it is given
_get_meta_unchecked(ser, subset) ==
    meta_described(ser,
                   IF IsNone(subset) THEN feature_columns(ser.features) ELSE subset.v,
                   outcome_column(ser.features))

\* _get_meta: the description of what is saved; reads feature_columns, checks
\* the subset, then reads meta_columns and outcome_column of the view.  The
\* clock reads "now".
_get_meta(ser, subset) ==
    IF ~IsNone(subset)
        /\ ~(ToSet(subset.v) \subseteq ToSet(feature_columns(ser.features)))
    THEN Outcome(ser.features, ValueError, PyNone, <<>>)
    ELSE meta_described(ser,
                        IF IsNone(subset) THEN feature_columns(ser.features)
                        ELSE subset.v,
                        outcome_column(ser.features))

\* the outcome of save: the view after it, the exception, the dict returned,
\* the hooks of the view invoked, and the files written by this call, in order
SaveOutcome(s, e, r, h, w) ==
    [self |-> s, exc |-> e, ret |-> r, hooks |-> h, written |-> w]

\* save after the selection of the columns: the data file is written
save_picked(s, hooks, meta, picked) ==
    IF picked.exc.type # "none"
    THEN SaveOutcome(s, picked.exc, PyNone, hooks,
                     <<[name |-> meta.meta_fn, content |-> meta]>>)
    ELSE SaveOutcome(s, NoExc, meta, hooks,
                     <<[name |-> meta.meta_fn, content |-> meta],
                       [name |-> meta.data_fn, content |-> picked.ret]>>)

\* save after the metadata file is written: the view is materialized
save_table(hooks, meta, table) ==
    IF Raised(table)
    THEN SaveOutcome(table.self, table.exc, PyNone, hooks \o table.hooks,
                     <<[name |-> meta.meta_fn, content |-> meta]>>)
    ELSE save_picked(table.self, hooks \o table.hooks, meta,
                     df_loc(table.ret,
                            meta.meta_columns \o meta.features \o meta.target))

\* save after _get_meta: the two file names are added to the description
save_meta(meta_path, data_path, got) ==
    IF Raised(got) THEN SaveOutcome(got.self, got.exc, PyNone, got.hooks, <<>>)
    ELSE save_table(got.hooks,
                    dict_update(got.ret, [meta_fn |-> meta_path, data_fn |-> data_path]),
                    data(got.self))

\* the prefix of the two file names
save_prefix(add_timestamp_prefix) ==
    IF add_timestamp_prefix.t = "str" THEN add_timestamp_prefix.s
    ELSE IF Truthy(add_timestamp_prefix) THEN "now"
    ELSE ""

\* save: the metadata file is written first, then the view is materialized
\* and the selected columns are written to the data file
save(ser, base_folder, meta_fn, data_fn, add_timestamp_prefix, subset) ==
    save_meta(base_folder \o save_prefix(add_timestamp_prefix) \o "_" \o meta_fn,
              base_folder \o save_prefix(add_timestamp_prefix) \o "_" \o data_fn,
              _get_meta(ser, subset))

----------------------------------------------------------------------------
(* The inputs of the model. *)

\* what is passed as `data`: a table, a file name, or something else
DataObjects ==
    { DataFrame(<<"m", "f", "g", "y">>, NRows),
      DataFrame(<<"m", "f", "g", "g_a", "y">>, NRows),
      PyStr("features.csv"),
      PyInt(0) }

FeatureColumnLists == { <<"f", "g">>, <<"f", "x">>, <<"m", "f">> }

Suffixes == { "", "_a" }

MetaColumnLists == { PyFalse, PyList(<<"m">>), PyList(<<"m", "z">>) }

ExcludeColumnLists == { PyFalse, PyList(<<"g", "n">>) }

----------------------------------------------------------------------------
(* The state machine. *)

Count(hooks, names) == Len(SelectSeq(hooks, LAMBDA h : h \in names))

\* the record of a public operation, and the hook counters after it
Op(name, a, r) ==
    [op |-> name, args |-> a, exc |-> r.exc, ret |-> r.ret, hooks |-> r.hooks]

Ran(r) ==
    [transform |-> runs.transform + Count(r.hooks, {"transform", "custom_transformer"}),
     impute |-> runs.impute + Count(r.hooks, {"impute"}),
     create_target |-> runs.create_target + Count(r.hooks, {"create_target"})]

NoRuns == [transform |-> 0, impute |-> 0, create_target |-> 0]

Constructed == self.t = "BaseFeatures"

\* a public operation `name` of self ended with the outcome r
Returns(name, a, r) ==
    /\ self' = r.self
    /\ last' = Op(name, a, r)
    /\ runs' = Ran(r)

Init ==
    \E cls \in Classes, d \in DataObjects, fc \in FeatureColumnLists,
       sfx \in Suffixes, mc \in MetaColumnLists, ec \in ExcludeColumnLists :
        LET r == __init__(cls, d, fc, sfx, mc, ec) IN
        /\ self = r.self
        /\ last = Op("__init__",
                     [cls |-> cls, data |-> d, feature_columns |-> fc,
                      feature_suffix |-> sfx, meta_columns |-> mc, exclude_columns |-> ec],
                     r)
        /\ runs = NoRuns
        /\ past = <<>>
        /\ other = PyNone
        /\ combined = PyNone
        /\ files = <<>>

\* value = self.data
GetData ==
    /\ Constructed
    /\ IsNone(self._clean_data) => runs.transform < MaxRuns
    /\ Returns("data", PyNone, data(self))
    /\ UNCHANGED <<past, other, combined, files>>

\* value = self.outcome_column
GetOutcomeColumn ==
    /\ Constructed
    /\ Returns("outcome_column", PyNone, outcome_column(self))
    /\ UNCHANGED <<past, other, combined, files>>

\* self.set_custom_transformer(fn): a new cache lifetime starts
SetCustomTransformer ==
    /\ Constructed
    /\ Len(past) < MaxSets
    /\ \E fn \in Transformers \cup {PyNone} :
        LET r == set_custom_transformer(self, fn) IN
        /\ self' = r.self
        /\ last' = Op("set_custom_transformer", fn, r)
    /\ runs' = NoRuns
    /\ past' = Append(past, ~IsNone(self._clean_data))
    /\ UNCHANGED <<other, combined, files>>

\* str(self)
Str ==
    /\ Constructed
    /\ IsNone(self._clean_data) => runs.transform < MaxRuns
    /\ Returns("__str__", PyNone, __str__(self))
    /\ UNCHANGED <<past, other, combined, files>>

Next ==
    \/ GetData
    \/ GetOutcomeColumn
    \/ SetCustomTransformer
    \/ Str

Spec == Init /\ [][Next]_vars

----------------------------------------------------------------------------
(* Two views and their sum: `self + other`. *)

\* the subclasses of the left operand: with and without a target, with a
\* transform that registers a feature, with a target that fails to resolve
LeftClasses ==
    { Class(hook_pass, hook_pass, PyStr("y")),
      Class(hook_new_feat, hook_pass, PyStr("y")),
      Class(hook_pass, hook_pass, PyNone),
      Class(hook_pass, hook_pass, PyInt(42)) }

\* the table of the right operand: one row per row of the left table with the
\* same key, or a table of another size in which a key occurs twice and a
\* row differs from the left one in the outcome only
RightTables ==
    [same |-> DataFrame(<<"m", "h", "f", "y">>, NRows),
     other |-> Table(<<"m", "h", "f", "y">>,
                     << <<1, 1, 1, 1>>, <<1, 2, 1, 1>>, <<2, 3, 2, 1>> >>)]

\* the constructor arguments of the right operands: subclass, table, feature
\* columns, suffix, meta columns
RightArguments ==
    { <<Class(hook_pass, hook_pass, PyStr("y")), RightTables.same, <<"h">>, "_b", PyList(<<"m">>)>>,
      <<Class(hook_pass, hook_pass, PyStr("y")), RightTables.other, <<"h">>, "_b", PyList(<<"m">>)>>,
      <<Class(hook_new_feat, hook_pass, PyStr("y")), RightTables.same, <<"h">>, "_b", PyList(<<"m">>)>>,
      <<Class(hook_pass, hook_pass, PyNone), RightTables.same, <<"h">>, "_b", PyList(<<"m">>)>>,
      <<Class(hook_pass, hook_pass, PyInt(42)), RightTables.same, <<"h">>, "_b", PyList(<<"m">>)>>,
      <<Class(hook_pass, hook_pass, PyStr("y")), RightTables.same, <<"f">>, "_a", PyList(<<"m">>)>>,
      <<Class(hook_pass, hook_pass, PyStr("y")), RightTables.same, <<"f">>, "_a", PyFalse>>,
      <<Class(hook_pass, hook_pass, PyStr("y")), RightTables.same, <<"h">>, "_b", PyFalse>> }

\* what stands to the right of +: a view, or something that is no BaseFeatures
RightOperands ==
    { __init__(a[1], a[2], a[3], a[4], a[5], PyFalse).self : a \in RightArguments }
        \cup { PyInt(0) }

InitAdd ==
    \E cls \in LeftClasses, sfx \in Suffixes, o \in RightOperands :
        LET d == DataFrame(<<"m", "f", "g", "y">>, NRows)
            r == __init__(cls, d, <<"f", "g">>, sfx, PyList(<<"m">>), PyFalse)
        IN
        /\ self = r.self
        /\ last = Op("__init__",
                     [cls |-> cls, data |-> d, feature_columns |-> <<"f", "g">>,
                      feature_suffix |-> sfx, meta_columns |-> PyList(<<"m">>),
                      exclude_columns |-> PyFalse],
                     r)
        /\ runs = NoRuns
        /\ past = <<>>
        /\ other = o
        /\ combined = PyNone
        /\ files = <<>>

\* self + other ended with the outcome r; when it raised, nothing is assigned
Added(r) ==
    /\ self' = r.self
    /\ other' = r.other
    /\ combined' = IF Raised(r) THEN combined ELSE r.ret
    /\ last' = [op |-> "__add__", args |-> other, exc |-> r.exc, ret |-> r.ret,
                hooks |-> r.hooks, other_hooks |-> r.other_hooks,
                warned |-> r.warned]
    /\ runs' = Ran(r)

\* combined = self + other
Add ==
    /\ Constructed
    /\ ~IsNone(other)
    /\ IsNone(self._clean_data) => runs.transform < MaxRuns
    /\ Added(__add__(self, other))
    /\ UNCHANGED <<past, files>>

\* a property `name` of the combined view was read with the outcome r
CombinedReturns(name, r) ==
    /\ combined' = r.self
    /\ last' = Op(name, PyNone, r)

\* value = combined.data
GetCombinedData ==
    /\ ~IsNone(combined)
    /\ CombinedReturns("combined.data", data(combined))
    /\ UNCHANGED <<self, runs, past, other, files>>

\* value = combined.outcome_column
GetCombinedOutcomeColumn ==
    /\ ~IsNone(combined)
    /\ CombinedReturns("combined.outcome_column", outcome_column(combined))
    /\ UNCHANGED <<self, runs, past, other, files>>

NextAdd ==
    \/ GetData
    \/ GetOutcomeColumn
    \/ SetCustomTransformer
    \/ Str
    \/ Add
    \/ GetCombinedData
    \/ GetCombinedOutcomeColumn

SpecAdd == InitAdd /\ [][NextAdd]_vars

----------------------------------------------------------------------------
(* A view and a serializer that saves it. *)

\* save is called only while fewer files than this have been written
MaxFiles == 1

\* a dict of additional metadata (its keys are none of the keys of _get_meta)
PyDict(d) == [t |-> "dict", d |-> d]

\* how save is called: plainly, or with additional metadata and a prefix
SaveStyles ==
    { [additional_meta |-> PyNone, add_timestamp_prefix |-> PyFalse],
      [additional_meta |-> PyDict([note |-> "selected"]),
       add_timestamp_prefix |-> PyStr("run")] }

\* the subsets asked for: none, a base feature, a name that is no feature next
\* to one that is, the feature the transform hook registers
Subsets == { PyNone, PyList(<<"f">>), PyList(<<"f", "q">>), PyList(<<"n">>) }

InitSave ==
    \E cls \in LeftClasses, sfx \in Suffixes :
        LET d == DataFrame(<<"m", "f", "g", "y">>, NRows)
            r == __init__(cls, d, <<"f", "g">>, sfx, PyList(<<"m">>), PyFalse)
        IN
        /\ self = r.self
        /\ last = Op("__init__",
                     [cls |-> cls, data |-> d, feature_columns |-> <<"f", "g">>,
                      feature_suffix |-> sfx, meta_columns |-> PyList(<<"m">>),
                      exclude_columns |-> PyFalse],
                     r)
        /\ runs = NoRuns
        /\ past = <<>>
        /\ other = PyNone
        /\ combined = PyNone
        /\ files = <<>>

\* save, called in the given style for the given subset, ended with the
\* outcome r
Saved(style, subset, r) ==
    /\ self' = r.self
    /\ files' = files \o r.written
    /\ last' = [op |-> "save",
                args |-> [additional_meta |-> style.additional_meta,
                          subset |-> subset,
                          add_timestamp_prefix |-> style.add_timestamp_prefix],
                exc |-> r.exc, ret |-> r.ret, hooks |-> r.hooks,
                written |-> r.written]
    /\ runs' = Ran(r)

\* FeatureSerializer(self, "uuid", additional_meta).save("out/", "meta.json",
\* "data.csv", add_timestamp_prefix, subset)
Save ==
    /\ Constructed
    /\ Len(files) < MaxFiles
    /\ IsNone(self._clean_data) => runs.transform < MaxRuns
    /\ \E style \in SaveStyles, subset \in Subsets :
        Saved(style, subset,
              save(FeatureSerializer(self, "uuid", style.additional_meta).ret,
                   "out/", "meta.json", "data.csv",
                   style.add_timestamp_prefix, subset))
    /\ UNCHANGED <<past, other, combined>>

NextSave ==
    \/ GetData
    \/ GetOutcomeColumn
    \/ SetCustomTransformer
    \/ Save

SpecSave == InitSave /\ [][NextSave]_vars

----------------------------------------------------------------------------
(* mlflow_utils.experiment_tools: split_string and the step of             *)
(* log_experiment that logs the feature names.  Here a str is the sequence *)
(* of its characters, so that its length, its words and its last           *)
(* character are what they are in Python.                                  *)

\* the longest input string, and the largest limit max_c, that are tried
MaxLen == 4
MaxC == 3

\* the default of the parameter max_c
DefaultMaxC == 400

\* the characters of the input strings: letters and two separators
Alphabet == {"a", "b", ",", ";"}
Separators == {",", ";"}

Strings == UNION { [1..n -> Alphabet] : n \in 0..MaxLen }

\* the feature lists handed to log_experiment
FeatureNames == { <<"a">>, <<"b">>, <<"a", "b">> }
FeatureLists == UNION { [1..n -> FeatureNames] : n \in 0..2 }

\* s.split(sep) for a separator of one character; word is the word begun
RECURSIVE str_split_from(_, _, _)
str_split_from(s, sep, word) ==
    IF s = <<>> THEN <<word>>
    ELSE IF Head(s) = sep THEN <<word>> \o str_split_from(Tail(s), sep, <<>>)
    ELSE str_split_from(Tail(s), sep, Append(word, Head(s)))

str_split(s, sep) == str_split_from(s, sep, <<>>)

\* sep.join(parts)
RECURSIVE str_join(_, _)
str_join(sep, parts) ==
    IF parts = <<>> THEN <<>>
    ELSE IF Len(parts) = 1 THEN parts[1]
    ELSE parts[1] \o <<sep>> \o str_join(sep, Tail(parts))

\* s[:-1]
str_drop_last(s) == IF s = <<>> THEN <<>> ELSE SubSeq(s, 1, Len(s) - 1)

\* the loop of split_string over the words left; the result is res_list as
\* it is when the loop ends
RECURSIVE split_string_loop(_, _, _, _)
split_string_loop(words, res_list, res_s, max_c) ==
    IF words = <<>> THEN res_list
    ELSE IF Len(res_s \o Head(words)) < max_c
    THEN split_string_loop(Tail(words), res_list,
                           res_s \o Head(words) \o <<",">>, max_c)
    ELSE split_string_loop(Tail(words), Append(res_list, str_drop_last(res_s)),
                           <<>>, max_c)

\* split_string(s, max_c, split_s)
split_string(s, max_c, split_s) ==
    split_string_loop(str_split(s, split_s), <<>>, <<>>, max_c)

\* the parameters log_experiment logs for the feature list: one features_i
\* per chunk
log_features(features) ==
    [i \in 1..Len(split_string(str_join(",", features), DefaultMaxC, ",")) |->
        [name |-> <<"features", i - 1>>,
         content |-> split_string(str_join(",", features), DefaultMaxC, ",")[i]]]

\* no view takes part; the arguments of the call to come are drawn
InitSplit ==
    \E s \in Strings, max_c \in 1..MaxC, split_s \in Separators :
        /\ self = PyNone
        /\ last = [op |-> "arguments",
                   args |-> [s |-> s, max_c |-> max_c, split_s |-> split_s],
                   exc |-> NoExc, ret |-> PyNone, hooks |-> <<>>]
        /\ runs = NoRuns
        /\ past = <<>>
        /\ other = PyNone
        /\ combined = PyNone
        /\ files = <<>>

\* res_list = split_string(s, max_c, split_s)
SplitString ==
    /\ last.op = "arguments"
    /\ last' = [op |-> "split_string", args |-> last.args, exc |-> NoExc,
                ret |-> PyList(split_string(last.args.s, last.args.max_c,
                                            last.args.split_s)),
                hooks |-> <<>>]
    /\ UNCHANGED <<self, runs, past, other, combined, files>>

\* log_experiment(..., features, ...): the feature names are joined, chunked
\* and logged, chunk by chunk
LogFeatures ==
    /\ last.op = "arguments"
    /\ \E features \in FeatureLists :
        /\ last' = [op |-> "log_experiment", args |-> [features |-> features],
                    exc |-> NoExc, ret |-> PyNone, hooks |-> <<>>]
        /\ files' = files \o log_features(features)
    /\ UNCHANGED <<self, runs, past, other, combined>>

NextSplit ==
    \/ SplitString
    \/ LogFeatures

SpecSplit == InitSplit /\ [][NextSplit]_vars

----------------------------------------------------------------------------
(* Properties. *)

TransformStage == {"transform", "custom_transformer"}

\* the view was materialized when set_custom_transformer was last called
MaterializedBeforeReplacement == Len(past) >= 1 /\ past[Len(past)]

NoDuplicates(seq) == \A i, j \in DOMAIN seq : seq[i] = seq[j] => i = j

\* C1, as stated: for any sequence of accesses to data with no call to
\* set_custom_transformer in between, the transform stage and the impute
\* stage each run at most once.
C1_StagesRunAtMostOnce == runs.transform <= 1 /\ runs.impute <= 1

\* C1, amended: an access to data (also the one __str__ makes) that finds
\* nothing memoized and succeeds runs the transform stage and the impute stage
\* exactly once each and memoizes the table it returns; every access after it,
\* with no set_custom_transformer in between, returns that memoized table,
\* invokes no hook and changes nothing.
C1_MemoizedAfterSuccess ==
    [][ (Constructed /\ last'.op \in {"data", "__str__"}) =>
            IF IsNone(self._clean_data)
            THEN ~Raised(last') =>
                    /\ Count(last'.hooks, TransformStage) = 1
                    /\ Count(last'.hooks, {"impute"}) = 1
                    /\ ~IsNone(self'._clean_data)
                    /\ last'.op = "data" => last'.ret = self'._clean_data
            ELSE /\ last'.hooks = <<>>
                 /\ last'.exc = NoExc
                 /\ runs' = runs
                 /\ self' = self
                 /\ last'.op = "data" => last'.ret = self._clean_data
      ]_vars

\* a second access to data of a materialized view: it ran no hook
C1_Witness ==
    /\ Constructed
    /\ last.op = "data" /\ ~Raised(last) /\ last.hooks = <<>>
    /\ runs.transform = 1 /\ runs.impute = 1
    /\ last.ret = self._clean_data

\* C2: set_custom_transformer(fn) stores fn and drops the memoized clean table,
\* and the next access to data invokes fn first (the hook-run counter goes up by
\* one); when that access returns, it returns the table it has just computed
\* and memoized.
C2_ReplacementReruns ==
    [][ /\ (Constructed /\ last'.op = "set_custom_transformer") =>
              /\ IsNone(self'._clean_data)
              /\ self'.custom_transformer = last'.args
        /\ (/\ Constructed
            /\ IsNone(self._clean_data)
            /\ ~IsNone(self.custom_transformer)
            /\ last'.op = "data") =>
              /\ last'.hooks # <<>>
              /\ Head(last'.hooks) = "custom_transformer"
              /\ runs'.transform = runs.transform + 1
              /\ ~Raised(last') =>
                    /\ last'.ret.t = "DataFrame"
                    /\ self'._clean_data = last'.ret
      ]_vars

\* a view materialized, its transformer replaced, and data read again: the
\* transformer ran and a table came back
C2_Witness ==
    /\ Constructed
    /\ MaterializedBeforeReplacement
    /\ ~IsNone(self.custom_transformer)
    /\ last.op = "data" /\ ~Raised(last)
    /\ last.hooks # <<>> /\ Head(last.hooks) = "custom_transformer"
    /\ self._clean_data = last.ret

\* C3: set_custom_transformer clears the cached target: right after the call
\* the target is unresolved (so the next access invokes create_target again).
C3_ReplacementClearsTarget ==
    (Constructed /\ last.op = "set_custom_transformer") => IsNone(self._outcome_column)

\* C4: the additional-features list is reset at invalidation: when a view is
\* materialized, its transformer replaced and the view materialized again, no
\* name occurs twice in _additional_features, raw_feature_columns or
\* feature_columns.
C4_NoDuplicateFeaturesAfterRerun ==
    (/\ Constructed
     /\ MaterializedBeforeReplacement
     /\ runs.transform = 1
     /\ last.op = "data" /\ ~Raised(last)) =>
        /\ NoDuplicates(self._additional_features)
        /\ NoDuplicates(raw_feature_columns(self))
        /\ NoDuplicates(feature_columns(self))

\* C5: stage mutation is all-or-nothing: when the transform stage or the impute
\* stage of an access to data fails, _all_data is what it was when that stage
\* began (the table before the access when the transform stage failed, the
\* table the transform stage left when the impute stage failed).
C5_FailedStageLeavesTableUntouched ==
    [][ (/\ Constructed
         /\ IsNone(self._clean_data)
         /\ last'.op = "data"
         /\ Raised(last')) =>
            CASE Len(last'.hooks) = 1 -> self'._all_data = self._all_data
              [] Len(last'.hooks) = 2 ->
                    self'._all_data = data_transform(self).self._all_data
              [] OTHER -> TRUE
      ]_vars

\* seq without the names that occur in excluded, the others in their order
RECURSIVE Without(_, _)
Without(seq, excluded) ==
    IF seq = <<>> THEN <<>>
    ELSE IF Head(seq) \in ToSet(excluded) THEN Without(Tail(seq), excluded)
    ELSE <<Head(seq)>> \o Without(Tail(seq), excluded)

\* C6: raw_feature_columns is the base feature columns followed by the
\* additional features, without the names of exclude_columns, the surviving
\* names in the order of the concatenation.
C6_RawFeatureColumns ==
    Constructed =>
        raw_feature_columns(self) =
            Without(self._base_feature_columns \o self._additional_features,
                    self.exclude_columns)

\* a view with an additional feature, where the exclusions removed a base
\* feature and an additional feature and kept another name
C6_Witness ==
    /\ Constructed
    /\ self._additional_features # <<>>
    /\ \E i \in DOMAIN self._base_feature_columns :
            Contains(self.exclude_columns, self._base_feature_columns[i])
    /\ \E i \in DOMAIN self._additional_features :
            Contains(self.exclude_columns, self._additional_features[i])
    /\ raw_feature_columns(self) # <<>>

\* C7: feature_columns has the length and order of raw_feature_columns; with a
\* non-empty feature_suffix its i-th entry is the i-th raw name followed by the
\* suffix ("f" with "_a" is "f_a"), with an empty one it is raw_feature_columns.
C7_FeatureColumns ==
    Constructed =>
        LET raw == raw_feature_columns(self)
            out == feature_columns(self)
        IN  /\ Len(out) = Len(raw)
            /\ self.feature_suffix = "" => out = raw
            /\ self.feature_suffix # "" =>
                    \A i \in 1..Len(raw) : out[i] = raw[i] \o self.feature_suffix
            /\ self.feature_suffix = "_a" =>
                    \A i \in 1..Len(raw) : raw[i] = "f" => out[i] = "f_a"

\* a view with a suffix, a base feature and an additional feature
C7_Witness ==
    /\ Constructed
    /\ self.feature_suffix = "_a"
    /\ self._additional_features # <<>>
    /\ feature_columns(self) = <<"f_a", "g_a", "n_a">>

\* C8: the columns of the memoized clean table are meta_columns, then
\* feature_columns, then the resolved target, in that order and no other
\* column, and the table has the rows of the source.
C8_CleanTableColumns ==
    (Constructed /\ ~IsNone(self._clean_data)) =>
        /\ self._clean_data.columns =
                self.meta_columns \o feature_columns(self) \o self._outcome_column.v
        /\ self._clean_data.nrows = NRows

\* the table __init__ loads from data_obj, for the two kinds it accepts
Loaded(data_obj) == IF data_obj.t = "str" THEN read_csv(data_obj.s) ELSE data_obj

Absent(df, names) == {i \in DOMAIN names : ~Contains(df.columns, names[i])}

\* C9: __init__ raises KeyError when a base feature column or a meta column is
\* no column of the source, naming the first absent base feature column if
\* there is one and the first absent meta column otherwise; no object exists
\* then and no hook has run.  With every column present it raises nothing.
C9_ConstructionValidates ==
    /\ ~Constructed => (last.op = "__init__" /\ Raised(last) /\ runs = NoRuns)
    /\ (last.op = "__init__" /\ last.args.data.t \in {"str", "DataFrame"}) =>
        LET df == Loaded(last.args.data)
            base == Absent(df, last.args.feature_columns)
            meta_columns == OrEmptyList(last.args.meta_columns)
            meta == Absent(df, meta_columns)
        IN  /\ last.hooks = <<>>
            /\ base # {} =>
                    /\ ~Constructed
                    /\ last.exc = KeyError(last.args.feature_columns[Min(base)])
            /\ (base = {} /\ meta # {}) =>
                    /\ ~Constructed
                    /\ last.exc = KeyError(meta_columns[Min(meta)])
            /\ (base = {} /\ meta = {}) => (Constructed /\ ~Raised(last))

\* a construction with an absent base feature column and an absent meta column:
\* the KeyError names the base feature column
C9_Witness ==
    /\ last.op = "__init__"
    /\ last.args.feature_columns = <<"f", "x">>
    /\ last.args.meta_columns = PyList(<<"m", "z">>)
    /\ last.exc = KeyError("x")
    /\ ~Constructed

\* C10: when an operation invokes create_target, a result that is neither
\* None nor a string raises TypeError, a string that is no column of the table
\* raises KeyError; None makes the target the empty list and the name of a
\* column makes it the one-element list of that name, which outcome_column
\* returns.
C10_TargetResolution ==
    (Constructed /\ Count(last.hooks, {"create_target"}) > 0) =>
        LET col == self.cls.create_target
            resolved(target) ==
                /\ self._outcome_column = PyList(target)
                /\ last.op = "outcome_column" =>
                        (last.exc = NoExc /\ last.ret = PyList(target))
        IN  CASE col.t = "None" -> resolved(<<>>)
              [] col.t = "str" ->
                    IF col.s \in ToSet(self._all_data.columns)
                    THEN resolved(<<col.s>>)
                    ELSE last.exc = KeyError(col.s)
              [] OTHER -> last.exc.type = "TypeError"

\* an access to data that ran the stages and failed on a create_target
\* returning a number
C10_Witness ==
    /\ Constructed
    /\ last.op = "data"
    /\ Count(last.hooks, {"create_target"}) = 1
    /\ self.cls.create_target = PyInt(42)
    /\ last.exc.type = "TypeError"

\* C15: the stages of one cache lifetime run in the order transform, impute,
\* target resolution: whenever an operation invokes create_target, the transform
\* stage and the impute stage of that lifetime have already run (also when the
\* operation is a read of outcome_column made before data was accessed).
C15_TargetAfterTransformAndImpute ==
    (Constructed /\ Count(last.hooks, {"create_target"}) > 0) =>
        /\ runs.transform >= 1
        /\ runs.impute >= 1

\* the target of the view was resolved once and the resolution failed: the
\* subclass defines a target, and the cached target list is the empty one that
\* _create_outcome_column stores before it invokes create_target
ResolutionFailed ==
    /\ ~IsNone(self.cls.create_target)
    /\ self._outcome_column = PyList(<<>>)

\* C17: no best-effort result follows a failed target resolution: on a view
\* whose target resolution has failed, an access to outcome_column or data does
\* not return normally (it would do so with an empty target).
C17_NoResultAfterFailedResolution ==
    (Constructed /\ ResolutionFailed /\ last.op \in {"outcome_column", "data"}) =>
        Raised(last)

\* the last operation was an access to data that got as far as the rename
\* stage: it ran the impute stage, neither stage hook raised, and the target
\* resolution did not fail in it
ReachedRename ==
    /\ last.op = "data"
    /\ Count(last.hooks, {"impute"}) = 1
    /\ last.exc.type \in {"none", "KeyError"}
    /\ ~(Count(last.hooks, {"create_target"}) > 0 /\ ResolutionFailed)

\* C18: the rename stage never renames a meta column or the target column: with
\* a non-empty suffix, after the rename every meta column and the target
\* column is a column of the working table under its original name, and the
\* projection succeeds.
C18_RenameKeepsMetaAndTarget ==
    (Constructed /\ ReachedRename /\ self.feature_suffix # "") =>
        /\ \A c \in ToSet(self.meta_columns \o self._outcome_column.v) :
                Contains(RenamedTable(self).columns, c)
        /\ ~Raised(last)

IsPrefix(a, b) == Len(a) <= Len(b) /\ \A i \in 1..Len(a) : a[i] = b[i]

Overlap(a, b) == ToSet(a) \cap ToSet(b) # {}

\* C11: self + other checks that other is a BaseFeatures, then that the sets of
\* meta columns are equal, then that the feature columns are disjoint: it
\* raises TypeError when other is no BaseFeatures, the TypeError of the meta
\* columns when the sets differ (also when the feature columns overlap as
\* well), and the KeyError of the duplicates when only the feature columns
\* overlap; when it raises, no combined view is returned.
C11_PreconditionsInOrder ==
    last.op = "__add__" =>
        /\ Raised(last) => IsNone(last.ret)
        /\ IF other.t # "BaseFeatures"
           THEN last.exc = TypeError("other")
           ELSE IF ToSet(self.meta_columns) # ToSet(other.meta_columns)
           THEN last.exc = TypeError("meta")
           ELSE Overlap(feature_columns(self), feature_columns(other)) =>
                    last.exc = KeyError("Duplicate feature columns")

\* C11, amended: after the check that other is a BaseFeatures (which runs no
\* hook), self + other materializes self.data and then other.data, and an
\* exception of either is the one it raises; only when both are materialized
\* does it check the meta columns and then the feature columns, as above.
C11_PreconditionsAfterMaterialization ==
    [][ last'.op = "__add__" =>
            /\ Raised(last') => (IsNone(last'.ret) /\ combined' = combined)
            /\ IF other.t # "BaseFeatures"
               THEN /\ last'.exc = TypeError("other")
                    /\ last'.hooks = <<>> /\ last'.other_hooks = <<>>
                    /\ self' = self
               ELSE IF Raised(data(self))
               THEN last'.exc = data(self).exc /\ last'.other_hooks = <<>>
               ELSE IF Raised(data(other))
               THEN last'.exc = data(other).exc
               ELSE IF ToSet(self'.meta_columns) # ToSet(other'.meta_columns)
               THEN last'.exc = TypeError("meta")
               ELSE Overlap(feature_columns(self'), feature_columns(other')) =>
                        last'.exc = KeyError("Duplicate feature columns")
      ]_vars

\* a sum of two materialized views whose meta columns differ and whose feature
\* columns overlap: the TypeError of the meta columns
C11_Witness ==
    /\ last.op = "__add__"
    /\ ~IsNone(self._clean_data) /\ ~IsNone(other._clean_data)
    /\ ToSet(self.meta_columns) # ToSet(other.meta_columns)
    /\ Overlap(feature_columns(self), feature_columns(other))
    /\ last.exc = TypeError("meta")
    /\ IsNone(last.ret)

\* C12: for two views with equal sets of meta columns and disjoint feature
\* columns (both materialized by the sum), self + other succeeds, and the
\* object it returns has the feature columns of self followed by those of
\* other, the meta columns of self and the resolved target of self, whatever
\* the target of other is.
C12_CombineSucceeds ==
    (/\ last.op = "__add__"
     /\ other.t = "BaseFeatures"
     /\ ~IsNone(self._clean_data) /\ ~IsNone(other._clean_data)
     /\ ToSet(self.meta_columns) = ToSet(other.meta_columns)
     /\ ~Overlap(feature_columns(self), feature_columns(other))) =>
        /\ ~Raised(last)
        /\ feature_columns(last.ret) = feature_columns(self) \o feature_columns(other)
        /\ Len(feature_columns(last.ret))
                = Len(feature_columns(self)) + Len(feature_columns(other))
        /\ last.ret.meta_columns = self.meta_columns
        /\ outcome_column(last.ret).ret = self._outcome_column

\* C13: the view self + other returns is a terminal view: the joined table is
\* its clean table, and no access to its data or its outcome_column invokes a
\* transform, impute or create_target hook of it.
C13_CombinedViewBypassesPipeline ==
    /\ (last.op = "__add__" /\ ~Raised(last)) =>
            (~IsNone(combined._clean_data) /\ combined._clean_data = combined._all_data)
    /\ last.op \in {"combined.data", "combined.outcome_column"} => last.hooks = <<>>

\* C16: create_target is invoked at most once per cache lifetime: between two
\* calls of set_custom_transformer (or since construction), whatever accesses
\* to outcome_column, data, __str__ and + are made, and whether the first
\* invocation succeeded or failed.
C16_TargetResolvedAtMostOnce ==
    /\ Constructed => runs.create_target <= 1
    \* the same for the view on the right of +, whose lifetime has no
    \* invalidation here: once its target has been resolved, a sum does not
    \* invoke its create_target again
    /\ (last.op = "__add__" /\ last.args.t = "BaseFeatures") =>
            /\ Count(last.other_hooks, {"create_target"}) <= 1
            /\ ~IsNone(last.args._outcome_column) =>
                    Count(last.other_hooks, {"create_target"}) = 0

\* a view whose target resolution failed when outcome_column was read, then
\* summed: the sum ran the stages of the view and did not invoke create_target
\* a second time
C16_Witness ==
    /\ Constructed
    /\ ResolutionFailed
    /\ runs.create_target = 1
    /\ last.op = "__add__"
    /\ Count(last.hooks, TransformStage) = 1
    /\ Count(last.hooks, {"create_target"}) = 0

\* the values of a row of table df in the columns of key, and in the others
KeyOf(df, key, row) == [k \in DOMAIN key |-> row[position(df.columns, key[k])]]

RestOf(df, key, row) ==
    LET rest == SelectSeq([i \in DOMAIN df.columns |-> i],
                          LAMBDA i : df.columns[i] \notin ToSet(key))
    IN  [q \in DOMAIN rest |-> row[rest[q]]]

\* C20: self + other joins self.data and other.data on the key meta_columns ++
\* outcome_column of self with inner-equality semantics: the rows of the joined
\* table are exactly the pairs of a left row and a right row with equal key
\* values (one row per pair); tables of different sizes make it print the
\* warning and never make it raise; when every left row matches exactly one
\* right row the joined table has as many rows as the left one.
C20_InnerJoinOnMetaAndTarget ==
    (/\ last.op = "__add__"
     /\ other.t = "BaseFeatures"
     /\ ~IsNone(self._clean_data) /\ ~IsNone(other._clean_data)) =>
        LET L == self._clean_data
            R == other._clean_data
            key == self.meta_columns \o self._outcome_column.v
            Pairs == {p \in (DOMAIN L.rows) \X (DOMAIN R.rows) :
                        KeyOf(L, key, L.rows[p[1]]) = KeyOf(R, key, R.rows[p[2]])}
            Joined(p) == L.rows[p[1]] \o RestOf(R, key, R.rows[p[2]])
        IN  /\ ~Raised(last) =>
                LET J == last.ret._all_data IN
                /\ \A c \in ToSet(key) : Contains(L.columns, c) /\ Contains(R.columns, c)
                /\ last.warned <=> (L.nrows # R.nrows)
                /\ Len(J.rows) = Cardinality(Pairs)
                /\ \A p \in Pairs : \E n \in DOMAIN J.rows : J.rows[n] = Joined(p)
                /\ \A n \in DOMAIN J.rows : \E p \in Pairs : J.rows[n] = Joined(p)
                /\ (\A i \in DOMAIN L.rows :
                        Cardinality({p \in Pairs : p[1] = i}) = 1) =>
                            J.nrows = L.nrows
            /\ (/\ L.nrows # R.nrows
                /\ ToSet(self.meta_columns) = ToSet(other.meta_columns)
                /\ ~Overlap(feature_columns(self), feature_columns(other))
                /\ \A c \in ToSet(key) : Contains(R.columns, c)) =>
                    (~Raised(last) /\ last.warned)

\* a sum of a two-column key with a right table of another size, in which one
\* left row matches two right rows and another left row matches none (its
\* meta value occurs on the right, with another outcome)
C20_Witness ==
    /\ last.op = "__add__" /\ ~Raised(last)
    /\ last.warned
    /\ self.meta_columns \o self._outcome_column.v = <<"m", "y">>
    /\ other._clean_data.nrows = 3
    /\ last.ret._all_data.nrows = 2
    /\ \E n \in DOMAIN last.ret._all_data.rows :
            last.ret._all_data.rows[n] = self._clean_data.rows[1] \o <<2>>

\* C14: save with a subset that is not contained in the feature_columns of
\* the view raises ValueError before anything is written (and before any hook
\* of the view runs); with a contained subset, the feature list of every
\* metadata file the call writes, and of the dict it returns, is the subset.
C14_SubsetValidatedBeforeWriting ==
    [][ (last'.op = "save" /\ ~IsNone(last'.args.subset)) =>
            LET subset == last'.args.subset.v IN
            IF ToSet(subset) \subseteq ToSet(feature_columns(self))
            THEN /\ last'.exc # ValueError
                 /\ last'.written # <<>> =>
                        /\ last'.written[1].name = last'.written[1].content.meta_fn
                        /\ last'.written[1].content.features = subset
                 /\ ~Raised(last') =>
                        /\ last'.ret.features = subset
                        /\ Len(last'.written) = 2
                        /\ last'.written[1].content = last'.ret
            ELSE /\ last'.exc = ValueError
                 /\ last'.written = <<>>
                 /\ files' = files
                 /\ last'.hooks = <<>>
                 /\ self' = self
      ]_vars

\* a save with a subset of which one name is a feature and one is not: the
\* ValueError, and no file
C14_Witness ==
    /\ last.op = "save"
    /\ last.args.subset = PyList(<<"f", "q">>)
    /\ Contains(feature_columns(self), "f")
    /\ last.exc = ValueError
    /\ files = <<>>

\* C21: split_string loses nothing: every chunk it returns is shorter than
\* max_c characters and is made of whole words of s, and the chunks joined
\* with the separator are s again (every word of s is in exactly one chunk,
\* in the original order).
C21_SplitLosesNothing ==
    last.op = "split_string" =>
        LET s == last.args.s
            sep == last.args.split_s
            chunks == last.ret.v
        IN  /\ \A i \in 1..Len(chunks) : Len(chunks[i]) < last.args.max_c
            /\ str_join(sep, chunks) = s
            /\ str_split(str_join(sep, chunks), sep) = str_split(s, sep)

\* C22: save describes what the view materializes, whether or not the view
\* was materialized before the call: after a save with subset=None that
\* returned, the feature list of the metadata (returned and written) and the
\* feature columns of the data file are the feature_columns of the view as
\* read after the call, and the saved target is its outcome_column.
C22_SaveDescribesView ==
    (last.op = "save" /\ ~Raised(last) /\ IsNone(last.args.subset)) =>
        /\ last.ret.features = feature_columns(self)
        /\ last.written[1].content.features = feature_columns(self)
        /\ last.written[2].content.columns =
               self.meta_columns \o feature_columns(self) \o outcome_column(self).ret.v
        /\ last.ret.target = outcome_column(self).ret.v

============================================================================
